---- MODULE Spec2Model ----
(***************************************************************************)
(* Model of the DNDS notification pipeline: the in-memory store            *)
(* (internal/store), the bounded delivery queue with its worker pool and   *)
(* retry sleepers (internal/queue), the PublishPost front-end              *)
(* (internal/grpc/service) and the start/stop wiring of cmd/server.        *)
(*                                                                         *)
(* A *models.Notification is a heap object shared by pointer between the   *)
(* store's per-user list, the channel buffer, the worker that processes it *)
(* and the retry goroutine; the model keeps the objects in the sequence    *)
(* objs and uses the index into objs as the pointer.                       *)
(***************************************************************************)
EXTENDS Integers, Sequences, FiniteSets, TLC

(* ---------------------------- bounds ----------------------------------- *)
\* largest capacity of the channel buffer explored: the capacity is fixed at
\* construction (the program uses 1000) and every capacity from 1 up to this
\* one is explored
QueueCap == 2
\* number of workers started (cmd/server starts 5)
NumWorkers == 2
\* total number of notification objects PublishPost may mint in a run
MaxNotifs == 2
\* number of entries of the sample users table that are loaded (the program
\* loads all seven); the FollowerIDs keep naming the users left out, which
\* GetFollowers then does not resolve
NumUsers == 2

Min(a, b) == IF a <= b THEN a ELSE b

(* ------------------------ program constants ---------------------------- *)
maxRetries == 3
initialBackoff == 100

StatusUnknown == "Unknown"
StatusQueued == "Queued"
StatusDelivered == "Delivered"
StatusFailed == "Failed"
StatusRetrying == "Retrying"

ErrNone == "nil"
ErrUserNotFound == "user not found"
ErrNotificationNotFound == "notification not found"

\* the users of loadSampleData, in the order of its users slice
SampleUserIds == <<"user1", "user2", "user3", "user4", "user5", "user6", "user7">>

\* the FollowerIDs loadSampleData gives each user
SampleFollowerIDs(u) ==
  CASE u = "user1" -> <<"user2", "user3", "user4", "user5", "user6", "user7">>
    [] u = "user2" -> <<"user1", "user3", "user5">>
    [] u = "user3" -> <<"user1", "user2", "user4">>
    [] u = "user4" -> <<"user2", "user5", "user7">>
    [] OTHER -> << >>

\* users table built by loadSampleData: user id |-> FollowerIDs
SampleUsers ==
  [u \in {SampleUserIds[i] : i \in 1..Min(NumUsers, Len(SampleUserIds))} |->
     SampleFollowerIDs(u)]

\* posts table built by loadSampleData: post id |-> AuthorID
SamplePosts ==
  [p \in {"post1", "post2", "post3"} |->
     CASE p = "post1" -> "user1" [] p = "post2" -> "user2" [] OTHER -> "user3"]

\* requests the ingest RPC is driven with: author ids (one unknown to the
\* users table) and post ids
AuthorInputs == {"user2", "user9"}
PostInputs == {"post4"}
\* synthetic processing delay of a pass, in ms (10 + rand.Intn(40))
ProcessingDelays == {30}

Workers == 1..NumWorkers

VARIABLES
  users,          \* store.users: id |-> FollowerIDs
  posts,          \* store.posts: id |-> AuthorID
  notifications,  \* store.notifications: user id |-> sequence of pointers
  objs,           \* the heap of Notification objects, indexed by pointer
  queue,          \* nq.queue: the buffered channel's content (pointers)
  capacity,       \* cap(nq.queue), fixed by NewNotificationQueue
  closed,         \* nq.queue has been closed
  cancelled,      \* nq.ctx has been cancelled
  wpc,            \* each worker goroutine's position
  wn,             \* the pointer each worker holds in processNotification
  sleepers,       \* retry goroutines in time.Sleep: pointer |-> their delays
  metrics,        \* nq.metrics
  droppedLog,     \* pointers logged as "Queue is full, notification dropped"
  mainPc,         \* position of main()
  serving,        \* the gRPC server still accepts PublishPost
  panicked,       \* a goroutine panicked (send on closed channel)
  response,       \* what the last PublishPost call returned
  call,           \* the PublishPost call in flight inside QueueNotifications
  enqueues,       \* history: pointer |-> number of accepted channel sends
  qrTransitions,  \* history: number of Status changes Queued -> Retrying
  retryMarks,     \* history: number of assignments Status = Retrying
  credit          \* history: pointer |-> what its passes added to the counters

vars == <<users, posts, notifications, objs, queue, capacity, closed,
          cancelled, wpc, wn, sleepers, metrics, droppedLog, mainPc, serving,
          panicked, response, call, enqueues, qrTransitions, retryMarks,
          credit>>

\* nothing added to any counter yet
NoCredit == [failed |-> 0, retries |-> 0, sent |-> 0]

storeVars == <<users, posts, notifications, capacity>>
histVars == <<enqueues, qrTransitions, retryMarks, credit>>

(* ----------------------------- helpers --------------------------------- *)
Range(s) == {s[i] : i \in 1..Len(s)}

RECURSIVE Pow2(_)
Pow2(k) == IF k <= 0 THEN 1 ELSE 2 * Pow2(k - 1)

\* number of positions of the sequence s that hold x
Count(s, x) == Cardinality({i \in 1..Len(s) : s[i] = x})

(* ------------------------------ models --------------------------------- *)
\* models.NewNotification(userID, post)
NewNotification(id, userID, postID, authorID) ==
  [ID |-> id, UserID |-> userID, PostID |-> postID, AuthorID |-> authorID,
   Read |-> FALSE, Status |-> StatusQueued, Attempts |-> 0]

(* ------------------------------- store --------------------------------- *)
\* variant: an unknown user has no followers and that is no error
GetFollowers_Lenient(us, userID) ==
  IF userID \notin DOMAIN us
  THEN [err |-> ErrNone, followers |-> << >>]
  ELSE [err |-> ErrNone,
        followers |-> SelectSeq(us[userID], LAMBDA id : id \in DOMAIN us)]

\* MemoryStore.GetFollowers: the follower ids that resolve, or ErrUserNotFound
GetFollowers(us, userID) ==
  IF userID \notin DOMAIN us
  THEN [err |-> ErrUserNotFound, followers |-> << >>]
  ELSE [err |-> ErrNone,
        followers |-> SelectSeq(us[userID], LAMBDA id : id \in DOMAIN us)]

\* MemoryStore.SavePost
SavePost(ps, postID, authorID) ==
  [p \in DOMAIN ps \cup {postID} |-> IF p = postID THEN authorID ELSE ps[p]]

\* variant: the pointer is put at the front of the recipient's list
SaveNotification_Prepend(ns, userID, ptr) ==
  [u \in DOMAIN ns \cup {userID} |->
     IF u = userID
     THEN <<ptr>> \o (IF u \in DOMAIN ns THEN ns[u] ELSE << >>)
     ELSE ns[u]]

\* variant: the pointer is not stored
SaveNotification_Lost(ns, userID, ptr) ==
  [u \in DOMAIN ns \cup {userID} |->
     IF u \in DOMAIN ns THEN ns[u] ELSE << >>]

\* MemoryStore.SaveNotification: append the pointer to the recipient's list
SaveNotification(ns, userID, ptr) ==
  [u \in DOMAIN ns \cup {userID} |->
     IF u = userID
     THEN (IF u \in DOMAIN ns THEN ns[u] ELSE << >>) \o <<ptr>>
     ELSE ns[u]]

\* variant: a notification whose ID is not in the list is appended
UpdateNotification_Upsert(ns, heap, ptr) ==
  LET uid == heap[ptr].UserID IN
  IF uid \notin DOMAIN ns
  THEN [err |-> ErrUserNotFound, ns |-> ns]
  ELSE LET hits == {i \in 1..Len(ns[uid]) : heap[ns[uid][i]].ID = heap[ptr].ID} IN
       IF hits = {}
       THEN [err |-> ErrNone, ns |-> [ns EXCEPT ![uid] = Append(@, ptr)]]
       ELSE LET i == CHOOSE k \in hits : \A j \in hits : k <= j IN
            [err |-> ErrNone, ns |-> [ns EXCEPT ![uid][i] = ptr]]

\* MemoryStore.UpdateNotification: replace the first entry of the recipient's
\* list whose ID is the notification's ID by the given pointer
UpdateNotification(ns, heap, ptr) ==
  LET uid == heap[ptr].UserID IN
  IF uid \notin DOMAIN ns
  THEN [err |-> ErrUserNotFound, ns |-> ns]
  ELSE LET hits == {i \in 1..Len(ns[uid]) : heap[ns[uid][i]].ID = heap[ptr].ID} IN
       IF hits = {}
       THEN [err |-> ErrNotificationNotFound, ns |-> ns]
       ELSE LET i == CHOOSE k \in hits : \A j \in hits : k <= j IN
            [err |-> ErrNone, ns |-> [ns EXCEPT ![uid][i] = ptr]]

\* variant: the loop runs forwards from the oldest entry
RECURSIVE ReadBackwards_Forwards(_, _, _, _)
ReadBackwards_Forwards(l, i, count, limit) ==
  IF Len(l) - i + 1 <= Len(l) /\ count < limit
  THEN <<l[Len(l) - i + 1]>> \o ReadBackwards_Forwards(l, i - 1, count + 1, limit)
  ELSE << >>

\* the loop of GetUserNotifications: from position i of the list (counted
\* from 1) down to the first, appending while count < limit
RECURSIVE ReadBackwards(_, _, _, _)
ReadBackwards(l, i, count, limit) ==
  IF i >= 1 /\ count < limit
  THEN <<l[i]>> \o ReadBackwards(l, i - 1, count + 1, limit)
  ELSE << >>

\* MemoryStore.GetUserNotifications: the result list and the error
GetUserNotifications(ns, userID, limit) ==
  IF userID \notin DOMAIN ns
  THEN [err |-> ErrNone, list |-> << >>]
  ELSE [err |-> ErrNone,
        list |-> ReadBackwards(ns[userID], Len(ns[userID]), 0, limit)]

(* ------------------------------- queue --------------------------------- *)
\* variant: the send goes through while the buffer holds capacity items
TrySend_OverCapacity(q, ptr) ==
  IF Len(q) <= capacity
  THEN [queue |-> Append(q, ptr), ok |-> TRUE]
  ELSE [queue |-> q, ok |-> FALSE]

\* one non-blocking channel send (select with default) on an open channel
TrySend(q, ptr) ==
  IF Len(q) < capacity
  THEN [queue |-> Append(q, ptr), ok |-> TRUE]
  ELSE [queue |-> q, ok |-> FALSE]

\* variant: queued++ runs for every item, accepted or not
Tally_Every(n, ok) == n + 1

\* QueueNotifications: queued++ in the case of the select that sent
Tally(n, ok) == n + (IF ok THEN 1 ELSE 0)

\* NotificationQueue.QueueNotifications on an open channel: the loop over the
\* items, each a non-blocking send
RECURSIVE QueueNotifications(_, _)
QueueNotifications(q, items) ==
  IF items = << >>
  THEN [queue |-> q, queued |-> 0, dropped |-> {}]
  ELSE LET s == TrySend(q, Head(items))
           r == QueueNotifications(s.queue, Tail(items)) IN
       [queue |-> r.queue,
        queued |-> Tally(r.queued, s.ok),
        dropped |-> r.dropped \cup (IF s.ok THEN {} ELSE {Head(items)})]

\* variant: the backoff grows linearly
Backoff_Linear(a) == a * initialBackoff

\* the backoff of the retry scheduled after the failure that made Attempts = a
Backoff(a) == Pow2(a - 1) * initialBackoff

\* variant: the budget test admits one attempt too many
RetryAllowed_OffByOne(a) == a <= maxRetries + 1

\* variant: the budget test stops one attempt early
RetryAllowed_Early(a) == a < maxRetries

\* the budget test of processNotification
RetryAllowed(a) == a <= maxRetries

\* the Status processNotification assigns when a retry is scheduled, when the
\* budget is exhausted, and on success; each preceded by a variant that assigns
\* another member of the enumeration
RetryStatus_Queued == StatusQueued
RetryStatus_Failed == StatusFailed
RetryStatus == StatusRetrying
ExhaustedStatus_Retrying == StatusRetrying
ExhaustedStatus == StatusFailed
SuccessStatus_Unknown == StatusUnknown
SuccessStatus == StatusDelivered

\* variant: the item is read but stays buffered
Receive_Peek(q) == [item |-> Head(q), rest |-> q]

\* a receive from the channel: the item handed over and what stays buffered
Receive(q) == [item |-> Head(q), rest |-> Tail(q)]

\* variant: the retry goroutine is started twice
SpawnRetry_Twice(pending, d) == Append(Append(pending, d), d)

\* go func(n, d): one more retry goroutine for the notification
SpawnRetry(pending, d) == Append(pending, d)

\* variants: the counter is left alone
CountFailure_Skip(m) == m
CountRetry_Skip(m) == m

\* FailedAttempts++ and TotalRetries++, each its own critical section
CountFailure(m) == [m EXCEPT !.FailedAttempts = @ + 1]
CountRetry(m) == [m EXCEPT !.TotalRetries = @ + 1]

\* variant: the duration sample is not appended
RecordDelivery_NoSample(m, d) == [m EXCEPT !.TotalSent = @ + 1]

\* the metrics update of a successful delivery (one critical section)
RecordDelivery(m, d) ==
  [m EXCEPT !.TotalSent = @ + 1, !.deliveryTimes = Append(@, d)]

\* NotificationQueue.GetMetrics
GetMetrics ==
  LET RECURSIVE Sum(_)
      Sum(s) == IF s = << >> THEN 0 ELSE Head(s) + Sum(Tail(s))
      dts == metrics.deliveryTimes IN
  [total_sent |-> metrics.TotalSent,
   failed_attempts |-> metrics.FailedAttempts,
   total_retries |-> metrics.TotalRetries,
   avg_delivery_time |-> IF Len(dts) > 0 THEN Sum(dts) \div Len(dts) ELSE 0,
   queue_size |-> Len(queue),
   worker_count |-> NumWorkers]

\* the process is running: main has not returned and no goroutine panicked
Alive == ~panicked /\ mainPc # "exited"

\* variant: the retry goroutines are counted as well
wg_WithSleepers ==
  Cardinality({w \in Workers : wpc[w] \notin {"none", "exited"}}) +
  Cardinality({p \in DOMAIN sleepers : sleepers[p] # << >>})

\* variant: only the workers inside a processing pass are waited for
wg_InPassOnly ==
  Cardinality({w \in Workers : wpc[w] \notin {"none", "exited", "select"}})
\* sync.WaitGroup counter: workers started and not yet returned
wg == Cardinality({w \in Workers : wpc[w] \notin {"none", "exited"}})

(* ------------------------------- Init ---------------------------------- *)
\* main() after NewMemoryStore(true) and NewNotificationQueue
Init ==
  /\ users = SampleUsers
  /\ posts = SamplePosts
  /\ notifications = [u \in DOMAIN SampleUsers |-> << >>]
  /\ objs = << >>
  /\ queue = << >>
  /\ capacity \in 1..QueueCap
  /\ closed = FALSE
  /\ cancelled = FALSE
  /\ wpc = [w \in Workers |-> "none"]
  /\ wn = [w \in Workers |-> 0]
  /\ sleepers = [p \in 1..MaxNotifs |-> << >>]
  /\ metrics = [TotalSent |-> 0, FailedAttempts |-> 0, TotalRetries |-> 0,
                deliveryTimes |-> << >>]
  /\ droppedLog = {}
  /\ mainPc = "constructed"
  /\ serving = FALSE
  /\ panicked = FALSE
  /\ response = [kind |-> "none"]
  /\ call = [pc |-> "idle"]
  /\ enqueues = [p \in 1..MaxNotifs |-> 0]
  /\ qrTransitions = 0
  /\ retryMarks = 0
  /\ credit = [p \in 1..MaxNotifs |-> NoCredit]

(* ------------------------------ main ----------------------------------- *)
\* notificationQueue.Start() and the two servers
Start ==
  /\ Alive /\ mainPc = "constructed"
  /\ wpc' = [w \in Workers |-> "select"]
  /\ mainPc' = "running"
  /\ serving' = TRUE
  /\ UNCHANGED <<storeVars, objs, queue, closed, cancelled, wn, sleepers,
                 metrics, droppedLog, panicked, response, call, histVars>>

\* main's cancel() on the signal, then Stop's nq.cancel()
StopCancel ==
  /\ Alive /\ mainPc = "running"
  /\ cancelled' = TRUE
  /\ mainPc' = "waiting"
  /\ UNCHANGED <<storeVars, objs, queue, closed, wpc, wn, sleepers, metrics,
                 droppedLog, serving, panicked, response, call, histVars>>

\* the server goroutine's grpcServer.GracefulStop() after <-ctx.Done()
GracefulStop ==
  /\ Alive /\ cancelled /\ serving
  /\ serving' = FALSE
  /\ UNCHANGED <<storeVars, objs, queue, closed, cancelled, wpc, wn, sleepers,
                 metrics, droppedLog, mainPc, panicked, response, call, histVars>>

\* Stop: nq.wg.Wait() has returned, close(nq.queue)
StopClose ==
  /\ Alive /\ mainPc = "waiting"
  /\ wg = 0
  /\ closed' = TRUE
  /\ mainPc' = "stopped"
  /\ UNCHANGED <<storeVars, objs, queue, cancelled, wpc, wn, sleepers, metrics,
                 droppedLog, serving, panicked, response, call, histVars>>

\* main returns: the process ends with every goroutine
MainExit ==
  /\ Alive /\ mainPc = "stopped"
  /\ mainPc' = "exited"
  /\ UNCHANGED <<storeVars, objs, queue, closed, cancelled, wpc, wn, sleepers,
                 metrics, droppedLog, serving, panicked, response, call, histVars>>

(* --------------------------- PublishPost ------------------------------- *)
\* the NotificationResponse PublishPost returns
PublishResponse(pid, queuedCount) ==
  [kind |-> "ok", post_id |-> pid, notifications_queued |-> queuedCount,
   success |-> TRUE]

\* the loop of PublishPost that saves each new notification
RECURSIVE SaveAll(_, _, _)
SaveAll(ns, heap, ptrs) ==
  IF ptrs = << >> THEN ns
  ELSE SaveAll(SaveNotification(ns, heap[Head(ptrs)].UserID, Head(ptrs)),
               heap, Tail(ptrs))

\* NotificationService.PublishPost for the request {id: pid, author_id: author},
\* up to the call of QueueNotifications; with nothing to queue the call
\* returns at once
PublishPost(author, pid) ==
  /\ Alive /\ serving
  /\ call.pc = "idle"
  /\ posts' = SavePost(posts, pid, author)
  /\ LET gf == GetFollowers(users, author)
         k == Len(gf.followers)
         base == Len(objs)
         created == [i \in 1..k |->
                       NewNotification(base + i, gf.followers[i], pid, author)]
         ptrs == [i \in 1..k |-> base + i]
         heap == objs \o created
     IN
     IF gf.err # ErrNone
     THEN /\ response' = [kind |-> "error", code |-> "Internal"]
          /\ UNCHANGED <<users, notifications, objs, call, capacity>>
     ELSE /\ base + k <= MaxNotifs
          /\ objs' = heap
          /\ notifications' = SaveAll(notifications, heap, ptrs)
          /\ UNCHANGED <<users, capacity>>
          /\ IF k = 0
             THEN /\ response' = PublishResponse(pid, 0)
                  /\ UNCHANGED call
             ELSE /\ call' = [pc |-> "queueing", post_id |-> pid,
                              items |-> ptrs, pending |-> ptrs, queued |-> 0]
                  /\ UNCHANGED response
  /\ UNCHANGED <<queue, closed, cancelled, wpc, wn, sleepers, metrics,
                 droppedLog, mainPc, serving, panicked, histVars>>

\* one iteration of the loop of QueueNotifications inside PublishPost; after
\* the last one PublishPost returns its response
SubmitNext ==
  /\ Alive /\ call.pc = "queueing"
  /\ IF closed
     THEN \* send on closed channel
          /\ panicked' = TRUE
          /\ UNCHANGED <<queue, droppedLog, enqueues, call, response>>
     ELSE LET p == Head(call.pending)
              s == TrySend(queue, p)
              n == Tally(call.queued, s.ok) IN
          /\ queue' = s.queue
          /\ droppedLog' = IF s.ok THEN droppedLog ELSE droppedLog \cup {p}
          /\ enqueues' = [enqueues EXCEPT ![p] = @ + (IF s.ok THEN 1 ELSE 0)]
          /\ IF Tail(call.pending) = << >>
             THEN /\ call' = [pc |-> "idle"]
                  /\ response' = PublishResponse(call.post_id, n)
             ELSE /\ call' = [call EXCEPT !.pending = Tail(@), !.queued = n]
                  /\ UNCHANGED response
          /\ UNCHANGED panicked
  /\ UNCHANGED <<storeVars, objs, closed, cancelled, wpc, wn, sleepers, metrics,
                 mainPc, serving, qrTransitions, retryMarks, credit>>

(* ------------------------------ worker --------------------------------- *)
\* worker: the select takes an item from the channel; processNotification
\* starts (startTime, the synthetic delay)
WorkerReceive(w) ==
  /\ Alive /\ wpc[w] = "select"
  /\ queue # << >>
  /\ wn' = [wn EXCEPT ![w] = Receive(queue).item]
  /\ queue' = Receive(queue).rest
  /\ wpc' = [wpc EXCEPT ![w] = "attempt"]
  /\ UNCHANGED <<storeVars, objs, closed, cancelled, sleepers, metrics,
                 droppedLog, mainPc, serving, panicked, response, call, histVars>>

\* variant: the select has no case for the token
SelectReturns_ClosedOnly == closed /\ queue = << >>

\* worker: a case of the select that returns is ready: <-nq.ctx.Done(), or
\* the receive from the channel closed and drained
SelectReturns == cancelled \/ (closed /\ queue = << >>)

\* worker: the select takes <-nq.ctx.Done(), or the receive finds the channel
\* closed and drained; the deferred wg.Done() runs
WorkerExit(w) ==
  /\ Alive /\ wpc[w] = "select"
  /\ SelectReturns
  /\ wpc' = [wpc EXCEPT ![w] = "exited"]
  /\ UNCHANGED <<storeVars, objs, queue, closed, cancelled, wn, sleepers,
                 metrics, droppedLog, mainPc, serving, panicked, response, call,
                 histVars>>

\* processNotification: the failure coin comes up failure; FailedAttempts++
\* under the metrics lock
AttemptFails(w) ==
  /\ Alive /\ wpc[w] = "attempt"
  /\ metrics' = CountFailure(metrics)
  /\ credit' = [credit EXCEPT ![wn[w]].failed =
                  @ + metrics'.FailedAttempts - metrics.FailedAttempts]
  /\ wpc' = [wpc EXCEPT ![w] = "failed"]
  /\ UNCHANGED <<storeVars, objs, queue, closed, cancelled, wn, sleepers,
                 droppedLog, mainPc, serving, panicked, response, call,
                 enqueues, qrTransitions, retryMarks>>

\* processNotification: notification.Attempts++, the budget test and the
\* assignment of notification.Status in the branch taken
FailureWrites(w) ==
  /\ Alive /\ wpc[w] = "failed"
  /\ LET n == wn[w]
         a == objs[n].Attempts + 1 IN
     IF RetryAllowed(a)
     THEN /\ objs' = [objs EXCEPT ![n].Attempts = a, ![n].Status = RetryStatus]
          /\ qrTransitions' = qrTransitions +
                                (IF objs[n].Status = StatusQueued THEN 1 ELSE 0)
          /\ retryMarks' = retryMarks + 1
          /\ wpc' = [wpc EXCEPT ![w] = "retry_update"]
     ELSE /\ objs' = [objs EXCEPT ![n].Attempts = a, ![n].Status = ExhaustedStatus]
          /\ wpc' = [wpc EXCEPT ![w] = "failed_update"]
          /\ UNCHANGED <<qrTransitions, retryMarks>>
  /\ UNCHANGED <<storeVars, queue, closed, cancelled, wn, sleepers, metrics,
                 droppedLog, mainPc, serving, panicked, response, call, enqueues,
                 credit>>

\* processNotification: the coin comes up success;
\* notification.Status = models.StatusDelivered
MarkDelivered(w) ==
  /\ Alive /\ wpc[w] = "attempt"
  /\ objs' = [objs EXCEPT ![wn[w]].Status = SuccessStatus]
  /\ wpc' = [wpc EXCEPT ![w] = "delivered_update"]
  /\ UNCHANGED <<storeVars, queue, closed, cancelled, wn, sleepers, metrics,
                 droppedLog, mainPc, serving, panicked, response, call, histVars>>

\* processNotification: nq.store.UpdateNotification(notification) in each of
\* the three branches; an error is logged and swallowed
StoreUpdate(w) ==
  /\ Alive /\ wpc[w] \in {"retry_update", "failed_update", "delivered_update"}
  /\ notifications' = UpdateNotification(notifications, objs, wn[w]).ns
  /\ wpc' = [wpc EXCEPT ![w] =
               CASE wpc[w] = "retry_update" -> "retry_metrics"
                 [] wpc[w] = "failed_update" -> "select"
                 [] OTHER -> "record"]
  /\ UNCHANGED <<users, posts, capacity, objs, queue, closed, cancelled, wn,
                 sleepers, metrics, droppedLog, mainPc, serving, panicked, response, call,
                 histVars>>

\* processNotification: TotalRetries++ under the metrics lock, then the retry
\* goroutine is spawned and the pass returns
ScheduleRetry(w) ==
  /\ Alive /\ wpc[w] = "retry_metrics"
  /\ metrics' = CountRetry(metrics)
  /\ sleepers' = [sleepers EXCEPT ![wn[w]] =
                    SpawnRetry(@, Backoff(objs[wn[w]].Attempts))]
  /\ credit' = [credit EXCEPT ![wn[w]].retries =
                  @ + metrics'.TotalRetries - metrics.TotalRetries]
  /\ wpc' = [wpc EXCEPT ![w] = "select"]
  /\ UNCHANGED <<storeVars, objs, queue, closed, cancelled, wn, droppedLog,
                 mainPc, serving, panicked, response, call, enqueues,
                 qrTransitions, retryMarks>>

\* processNotification: TotalSent++ and the duration sample, one critical
\* section of the metrics lock; the pass returns
RecordMetrics(w) ==
  /\ Alive /\ wpc[w] = "record"
  /\ \E d \in ProcessingDelays : metrics' = RecordDelivery(metrics, d)
  /\ credit' = [credit EXCEPT ![wn[w]].sent =
                  @ + metrics'.TotalSent - metrics.TotalSent]
  /\ wpc' = [wpc EXCEPT ![w] = "select"]
  /\ UNCHANGED <<storeVars, objs, queue, closed, cancelled, wn, sleepers,
                 droppedLog, mainPc, serving, panicked, response, call,
                 enqueues, qrTransitions, retryMarks>>

\* the retry goroutine: time.Sleep(d) is over, nq.QueueNotification(n)
RetryFire(p) ==
  /\ Alive /\ sleepers[p] # << >>
  /\ sleepers' = [sleepers EXCEPT ![p] = Tail(@)]
  /\ IF closed
     THEN \* send on closed channel
          /\ panicked' = TRUE
          /\ UNCHANGED <<queue, droppedLog, enqueues>>
     ELSE LET s == TrySend(queue, p) IN
          /\ queue' = s.queue
          /\ droppedLog' = IF s.ok THEN droppedLog ELSE droppedLog \cup {p}
          /\ enqueues' = [enqueues EXCEPT ![p] = @ + (IF s.ok THEN 1 ELSE 0)]
          /\ UNCHANGED panicked
  /\ UNCHANGED <<storeVars, objs, closed, cancelled, wpc, wn, metrics, mainPc,
                 serving, response, call, qrTransitions, retryMarks,
                 credit>>

(* ------------------------------- Next ---------------------------------- *)
WorkerStep(w) ==
  \/ WorkerReceive(w)
  \/ WorkerExit(w)
  \/ AttemptFails(w)
  \/ FailureWrites(w)
  \/ MarkDelivered(w)
  \/ StoreUpdate(w)
  \/ ScheduleRetry(w)
  \/ RecordMetrics(w)

Next ==
  \/ Start
  \/ StopCancel
  \/ GracefulStop
  \/ StopClose
  \/ MainExit
  \/ \E a \in AuthorInputs, pid \in PostInputs : PublishPost(a, pid)
  \/ SubmitNext
  \/ \E w \in Workers : WorkerStep(w)
  \/ \E p \in 1..MaxNotifs : RetryFire(p)

Spec == Init /\ [][Next]_vars

\* the scheduler runs every worker goroutine, every retry goroutine and the
\* handler goroutine of a PublishPost call
Fairness ==
  /\ \A w \in Workers : WF_vars(WorkerStep(w))
  /\ \A p \in 1..MaxNotifs : WF_vars(RetryFire(p))
  /\ WF_vars(SubmitNext)

FairSpec == Spec /\ Fairness

\* The runs in which Stop is never requested: the queue keeps running. A
\* claim that is conditional on the queue not being stopped is settled on
\* these runs, the others satisfying it by its own condition.
RunningStep(w) ==
  \/ WorkerReceive(w)
  \/ AttemptFails(w)
  \/ FailureWrites(w)
  \/ MarkDelivered(w)
  \/ StoreUpdate(w)
  \/ ScheduleRetry(w)
  \/ RecordMetrics(w)

RunNext ==
  \/ Start
  \/ \E a \in AuthorInputs, pid \in PostInputs : PublishPost(a, pid)
  \/ SubmitNext
  \/ \E w \in Workers : RunningStep(w)
  \/ \E p \in 1..MaxNotifs : RetryFire(p)

RunFairness ==
  /\ \A w \in Workers : WF_vars(RunningStep(w))
  /\ \A p \in 1..MaxNotifs : WF_vars(RetryFire(p))
  /\ WF_vars(SubmitNext)

RunSpec == Init /\ [][RunNext]_vars /\ RunFairness

(* ------------------- bulk submission on its own ------------------------ *)
\* The queue as a producer sees it while no worker is taking items: the
\* notifications of earlier posts are in the store, some of them fill a
\* prefix of the buffer, and QueueNotifications / QueueNotification are
\* called, each call one step.
BulkItems == MaxNotifs + 2

\* the sequences of distinct pointers taken from the set S
RECURSIVE DistinctSeqs(_)
DistinctSeqs(S) ==
  {<< >>} \cup UNION {{<<x>> \o t : t \in DistinctSeqs(S \ {x})} : x \in S}

BulkInit ==
  /\ users = SampleUsers
  /\ posts = SavePost(SamplePosts, "post4", "user2")
  /\ objs = [i \in 1..BulkItems |-> NewNotification(i, "user1", "post4", "user2")]
  /\ notifications =
       SaveAll([u \in DOMAIN SampleUsers |-> << >>], objs,
               [i \in 1..BulkItems |-> i])
  /\ capacity \in 1..QueueCap
  /\ queue \in {q \in DistinctSeqs(1..BulkItems) : Len(q) <= capacity}
  /\ closed = FALSE
  /\ cancelled = FALSE
  /\ wpc = [w \in Workers |-> "select"]
  /\ wn = [w \in Workers |-> 0]
  /\ sleepers = [p \in 1..BulkItems |-> << >>]
  /\ metrics = [TotalSent |-> 0, FailedAttempts |-> 0, TotalRetries |-> 0,
                deliveryTimes |-> << >>]
  /\ droppedLog = {}
  /\ mainPc = "running"
  /\ serving = TRUE
  /\ panicked = FALSE
  /\ response = [kind |-> "none"]
  /\ call = [pc |-> "idle"]
  /\ enqueues = [p \in 1..BulkItems |-> Count(queue, p)]
  /\ qrTransitions = 0
  /\ retryMarks = 0
  /\ credit = [p \in 1..BulkItems |-> NoCredit]

\* nq.QueueNotifications(items), start to return
BulkSubmit(items) ==
  /\ Alive /\ ~closed
  /\ LET r == QueueNotifications(queue, items) IN
     /\ queue' = r.queue
     /\ droppedLog' = droppedLog \cup r.dropped
     /\ enqueues' = [p \in DOMAIN enqueues |->
                       enqueues[p] + Count(r.queue, p) - Count(queue, p)]
     /\ response' = [kind |-> "bulk", notifications_queued |-> r.queued]
  /\ UNCHANGED <<storeVars, objs, closed, cancelled, wpc, wn, sleepers, metrics,
                 mainPc, serving, panicked, call, qrTransitions, retryMarks,
                 credit>>

\* nq.QueueNotification(p), start to return
SingleSubmit(p) ==
  /\ Alive /\ ~closed
  /\ LET s == TrySend(queue, p) IN
     /\ queue' = s.queue
     /\ droppedLog' = IF s.ok THEN droppedLog ELSE droppedLog \cup {p}
     /\ enqueues' = [enqueues EXCEPT ![p] = @ + (IF s.ok THEN 1 ELSE 0)]
  /\ UNCHANGED <<storeVars, objs, closed, cancelled, wpc, wn, sleepers, metrics,
                 mainPc, serving, panicked, response, call, qrTransitions,
                 retryMarks, credit>>

\* the notifications a producer may submit: those not in the buffer
Submittable == (1..BulkItems) \ Range(queue)

\* the slices a producer may pass to QueueNotifications: notifications in the
\* order of their creation
AllSlices ==
  {s \in DistinctSeqs(1..BulkItems) : \A i \in 1..(Len(s) - 1) : s[i] < s[i + 1]}

BulkInputs == {s \in AllSlices : Range(s) \subseteq Submittable}

BulkNext ==
  \/ \E items \in BulkInputs : BulkSubmit(items)
  \/ \E p \in Submittable : SingleSubmit(p)

BulkSpec == BulkInit /\ [][BulkNext]_vars

(* --------------------------- Store reads ------------------------------- *)
\* The Store on its own: StoreItems notifications exist, none saved yet; they
\* are saved in any order, the lists are read with any limit and entries are
\* updated, each call one step.
StoreItems == MaxNotifs + 2
MaxLimit == StoreItems

\* the users GetUserNotifications is called for: those of the users table
\* and one that has no notification list
ReadUsers == DOMAIN SampleUsers \cup {"user9"}

\* recipients are taken in turn from the users table
StoreRecipient(i) == SampleUserIds[((i - 1) % Min(NumUsers, Len(SampleUserIds))) + 1]

\* the notifications the Store is called with: StoreItems of them for the
\* users of the table, a second object with the ID of the first and other
\* field values, and one whose recipient has no notification list
StoreHeap ==
  [i \in 1..StoreItems |->
     NewNotification(i, StoreRecipient(i), "post4", "user9")]
  \o <<[NewNotification(1, StoreRecipient(1), "post4", "user9")
          EXCEPT !.Status = StatusDelivered],
       NewNotification(StoreItems + 1, "user9", "post4", "user9")>>

StoreInit ==
  /\ users = SampleUsers
  /\ posts = SavePost(SamplePosts, "post4", "user9")
  /\ objs = StoreHeap
  /\ notifications = [u \in DOMAIN SampleUsers |-> << >>]
  /\ capacity = QueueCap
  /\ queue = << >>
  /\ closed = FALSE
  /\ cancelled = FALSE
  /\ wpc = [w \in Workers |-> "select"]
  /\ wn = [w \in Workers |-> 0]
  /\ sleepers = [p \in 1..StoreItems |-> << >>]
  /\ metrics = [TotalSent |-> 0, FailedAttempts |-> 0, TotalRetries |-> 0,
                deliveryTimes |-> << >>]
  /\ droppedLog = {}
  /\ mainPc = "running"
  /\ serving = TRUE
  /\ panicked = FALSE
  /\ response = [kind |-> "none"]
  /\ call = [pc |-> "idle"]
  /\ enqueues = [p \in 1..StoreItems |-> 0]
  /\ qrTransitions = 0
  /\ retryMarks = 0
  /\ credit = [p \in 1..StoreItems |-> NoCredit]

\* store.SaveNotification(objs[p]) for a notification not saved yet
StoreSave(p) ==
  /\ Alive
  /\ \A q \in Range(notifications[objs[p].UserID]) : objs[q].ID # objs[p].ID
  /\ notifications' = SaveNotification(notifications, objs[p].UserID, p)
  /\ response' = [kind |-> "saved", ptr |-> p]
  /\ UNCHANGED <<users, posts, capacity, objs, queue, closed, cancelled, wpc,
                 wn, sleepers, metrics, droppedLog, mainPc, serving, panicked,
                 call, histVars>>

\* store.GetUserNotifications(u, limit), start to return
StoreRead(u, limit) ==
  /\ Alive
  /\ LET r == GetUserNotifications(notifications, u, limit) IN
     response' = [kind |-> "read", user |-> u, limit |-> limit,
                  err |-> r.err, list |-> r.list]
  /\ UNCHANGED <<storeVars, objs, queue, closed, cancelled, wpc, wn, sleepers,
                 metrics, droppedLog, mainPc, serving, panicked, call, histVars>>

\* store.UpdateNotification(objs[p]), start to return
StoreUpdateCall(p) ==
  /\ Alive
  /\ LET r == UpdateNotification(notifications, objs, p) IN
     /\ notifications' = r.ns
     /\ response' = [kind |-> "updated", ptr |-> p, err |-> r.err]
  /\ UNCHANGED <<users, posts, capacity, objs, queue, closed, cancelled, wpc,
                 wn, sleepers, metrics, droppedLog, mainPc, serving, panicked,
                 call, histVars>>

StoreNext ==
  \/ \E p \in 1..StoreItems : StoreSave(p)
  \/ \E p \in 1..Len(objs) : StoreUpdateCall(p)
  \/ \E u \in ReadUsers : \E limit \in 0..MaxLimit : StoreRead(u, limit)

StoreSpec == StoreInit /\ [][StoreNext]_vars

(* ---------------------- Stop on a loaded queue ------------------------- *)
\* The queue running under load when Stop is requested: the notifications of
\* earlier posts are in the store, some of them wait in the buffer, and a
\* producer keeps submitting the others, before and after the request.
StopInit ==
  /\ users = SampleUsers
  /\ posts = SavePost(SamplePosts, "post4", "user2")
  /\ objs = [i \in 1..MaxNotifs |-> NewNotification(i, "user1", "post4", "user2")]
  /\ notifications =
       SaveAll([u \in DOMAIN SampleUsers |-> << >>], objs,
               [i \in 1..MaxNotifs |-> i])
  /\ capacity \in 1..QueueCap
  /\ queue \in {q \in DistinctSeqs(1..MaxNotifs) : Len(q) <= capacity}
  /\ closed = FALSE
  /\ cancelled = FALSE
  /\ wpc = [w \in Workers |-> "select"]
  /\ wn = [w \in Workers |-> 0]
  /\ sleepers = [p \in 1..MaxNotifs |-> << >>]
  /\ metrics = [TotalSent |-> 0, FailedAttempts |-> 0, TotalRetries |-> 0,
                deliveryTimes |-> << >>]
  /\ droppedLog = {}
  /\ mainPc = "running"
  /\ serving = TRUE
  /\ panicked = FALSE
  /\ response = [kind |-> "none"]
  /\ call = [pc |-> "idle"]
  /\ enqueues = [p \in 1..MaxNotifs |-> Count(queue, p)]
  /\ qrTransitions = 0
  /\ retryMarks = 0
  /\ credit = [p \in 1..MaxNotifs |-> NoCredit]

\* the notifications the producer has not submitted yet
Unsubmitted == {p \in 1..Len(objs) : enqueues[p] = 0 /\ p \notin droppedLog}

StopNext ==
  \/ StopCancel
  \/ StopClose
  \/ MainExit
  \/ \E p \in Unsubmitted : SingleSubmit(p)
  \/ \E w \in Workers : WorkerStep(w)
  \/ \E p \in 1..MaxNotifs : RetryFire(p)

\* the scheduler runs every worker goroutine and main; the select of a worker
\* picks at random among its ready cases, so a case that is ready again and
\* again is taken in the end
StopFairness ==
  /\ \A w \in Workers : WF_vars(WorkerStep(w)) /\ SF_vars(WorkerExit(w))
  /\ WF_vars(StopClose)

StopSpec == StopInit /\ [][StopNext]_vars /\ StopFairness
TypeOK ==
  /\ Len(queue) <= capacity
  /\ \A w \in Workers : wn[w] \in 0..Len(objs)

(* ------------------------- derived notions ----------------------------- *)
Ptrs == 1..Len(objs)

Terminal(p) ==
  p \in Ptrs /\ objs[p].Status \in {StatusDelivered, StatusFailed}

\* positions of a worker inside processNotification
PassPcs == {"attempt", "failed", "retry_update", "retry_metrics",
            "failed_update", "delivered_update", "record"}

\* the workers that are running a processing pass on p
Holders(p) == {w \in Workers : wpc[w] \in PassPcs /\ wn[w] = p}

\* the workers whose position is one of pcs
WorkersAt(pcs) == {w \in Workers : wpc[w] \in pcs}

WithStatus(st) == {p \in Ptrs : objs[p].Status = st}

RECURSIVE SumOver(_, _)
SumOver(f, S) ==
  IF S = {} THEN 0
  ELSE LET x == CHOOSE y \in S : TRUE IN f[x] + SumOver(f, S \ {x})

\* a retry was dropped by backpressure: a logged drop of a notification that
\* had already failed
RetryDropped == \E p \in droppedLog : objs[p].Attempts > 0

(* ------------------------------ claims --------------------------------- *)
\* C1: in every reachable state every notification has
\* Attempts <= maxRetries + 1 (= 4).
C1_AttemptsBounded == \A p \in Ptrs : objs[p].Attempts <= maxRetries + 1

\* a notification has used the whole budget: four failed attempts
C1_Witness == \E p \in Ptrs : objs[p].Attempts = maxRetries + 1

\* C3: once Delivered always Delivered, once Failed always Failed; a terminal
\* notification is not in the buffer, not in a retry sleeper, is never
\* accepted by the buffer again and no worker starts a pass on it.
C3_TerminalStable ==
  [][\A p \in Ptrs :
       Terminal(p) =>
         /\ objs'[p].Status = objs[p].Status
         /\ Count(queue, p) = 0 /\ Count(queue', p) = 0
         /\ sleepers[p] = << >> /\ sleepers'[p] = << >>
         /\ enqueues'[p] = enqueues[p]
         /\ \A w \in Workers :
              (wpc'[w] = "attempt" /\ wn'[w] = p) => wpc[w] = "attempt"]_vars

\* both terminal statuses are present and every pass has returned
C3_Witness ==
  /\ WithStatus(StatusDelivered) # {}
  /\ WithStatus(StatusFailed) # {}
  /\ WorkersAt(PassPcs) = {}

\* C4: every change of a notification's Status is one of Queued -> Delivered,
\* Queued -> Retrying, Queued -> Failed, Retrying -> Queued,
\* Retrying -> Delivered, Retrying -> Failed.
StatusEdges ==
  {<<StatusQueued, StatusDelivered>>, <<StatusQueued, StatusRetrying>>,
   <<StatusQueued, StatusFailed>>, <<StatusRetrying, StatusQueued>>,
   <<StatusRetrying, StatusDelivered>>, <<StatusRetrying, StatusFailed>>}

C4_StatusGraph ==
  [][\A p \in Ptrs :
       objs'[p].Status # objs[p].Status =>
         <<objs[p].Status, objs'[p].Status>> \in StatusEdges]_vars

\* one notification was delivered after a retry, another failed for good
C4_Witness ==
  /\ \E p \in Ptrs : objs[p].Status = StatusDelivered /\ objs[p].Attempts > 0
  /\ \E p \in Ptrs : objs[p].Status = StatusFailed

\* C5: a notification occupies at most one slot of the buffer at any instant,
\* and over its lifetime it is accepted by the buffer at most once initially
\* plus once per retry of the budget.
C5_OneSlot ==
  \A p \in 1..MaxNotifs :
    /\ Count(queue, p) <= 1
    /\ enqueues[p] <= 1 + maxRetries

\* a buffer of two slots is full, and one of the two notifications in it is
\* there for its last permitted time
C5_Witness ==
  /\ Len(queue) = 2
  /\ \E i \in 1..Len(queue) : enqueues[queue[i]] = 1 + maxRetries

\* C6: an item taken from the buffer goes to exactly one worker; no two
\* workers run a pass on the same notification at the same time, and a
\* notification that a worker is processing is neither in the buffer nor
\* awaiting backoff in a retry sleeper.
C6_SingleOwner ==
  [][/\ \A p \in 1..MaxNotifs :
          /\ Cardinality(Holders(p))' <= 1
          /\ Holders(p)' # {} => (Count(queue, p) = 0 /\ sleepers[p] = << >>)'
     /\ Len(queue') < Len(queue) =>
          /\ queue' = Tail(queue)
          /\ Cardinality({w \in Workers :
                            /\ wpc[w] = "select" /\ wpc'[w] = "attempt"
                            /\ wn'[w] = Head(queue)}) = 1
          /\ \A w \in Workers :
               wpc'[w] = wpc[w] \/ (wpc[w] = "select" /\ wpc'[w] = "attempt")
    ]_vars

\* both workers are inside a pass, one on a notification that is being retried
C6_Witness ==
  /\ \A w \in Workers : wpc[w] \in PassPcs
  /\ \E w \in Workers : enqueues[wn[w]] > 1

\* C7 as stated: TotalRetries equals the number of Queued -> Retrying Status
\* transitions over all notifications. Read at the states where every pass
\* that has assigned Retrying has also incremented the counter, which is
\* where the equality could hold at all.
C7_Original ==
  WorkersAt({"retry_update", "retry_metrics"}) = {} =>
    metrics.TotalRetries = qrTransitions

\* C7 amended: TotalRetries counts every assignment of Status = Retrying, the
\* repeated failures of a notification that is already Retrying included: it
\* equals the sum over the notifications of min(Attempts, maxRetries), less
\* the passes that have made the assignment and not yet the increment; the
\* Queued -> Retrying transitions are at most one per notification.
C7_RetriesCountFailuresInBudget ==
  /\ metrics.TotalRetries
       + Cardinality(WorkersAt({"retry_update", "retry_metrics"}))
     = SumOver([p \in Ptrs |-> Min(objs[p].Attempts, maxRetries)], Ptrs)
  /\ retryMarks = SumOver([p \in Ptrs |-> Min(objs[p].Attempts, maxRetries)], Ptrs)
  /\ qrTransitions = Cardinality({p \in Ptrs : objs[p].Attempts > 0})

\* a notification has been retried three times and every pass has returned
C7_Witness ==
  /\ WorkersAt(PassPcs) = {}
  /\ \E p \in Ptrs : objs[p].Attempts >= maxRetries
  /\ metrics.TotalRetries > qrTransitions

\* C8 as stated: FailedAttempts = TotalRetries + number of Failed
\* notifications, in every reachable state.
C8_Original ==
  metrics.FailedAttempts =
    metrics.TotalRetries + Cardinality(WithStatus(StatusFailed))

\* C8 amended: the equality holds up to the passes that are inside the
\* failure branch, between FailedAttempts++ and the TotalRetries++ or the
\* assignment of Failed that matches it; in particular it holds whenever no
\* worker is inside a failure branch.
C8_FailedAttemptsAccounting ==
  metrics.FailedAttempts =
    metrics.TotalRetries + Cardinality(WithStatus(StatusFailed))
      + Cardinality(WorkersAt({"failed", "retry_update", "retry_metrics"}))

\* a notification has failed for good, another has been retried, and no
\* pass is in flight
C8_Witness ==
  /\ WorkersAt(PassPcs) = {}
  /\ WithStatus(StatusFailed) # {}
  /\ metrics.TotalRetries > maxRetries

\* C9: the number of duration samples equals TotalSent in every state, and
\* both count the successful deliveries: the Delivered notifications less
\* those whose pass has not reached its metrics update.
C9_SamplesMatchSent ==
  /\ Len(metrics.deliveryTimes) = metrics.TotalSent
  /\ GetMetrics.total_sent = Len(metrics.deliveryTimes)
  /\ metrics.TotalSent + Cardinality(WorkersAt({"delivered_update", "record"}))
       = Cardinality(WithStatus(StatusDelivered))

\* two deliveries have been recorded
C9_Witness == metrics.TotalSent = 2 /\ Len(metrics.deliveryTimes) = 2

\* C2 as stated: every notification PublishPost creates eventually becomes
\* Delivered or Failed, in every fair run where no retry is dropped by
\* backpressure and the queue is not stopped.
C2_Original ==
  \A p \in 1..MaxNotifs :
    [](p \in Ptrs => <>(Terminal(p) \/ RetryDropped \/ cancelled))

\* C2 amended: the same for every notification that the buffer accepted at
\* its initial enqueue; one that PublishPost created and the full buffer
\* dropped stays Queued for ever.
C2_AcceptedEventuallyTerminal ==
  \A p \in 1..MaxNotifs :
    [](enqueues[p] > 0 => <>(Terminal(p) \/ RetryDropped \/ cancelled))

\* a notification went through all its retries and was then delivered, with
\* no retry dropped and the queue running
C2_Witness ==
  /\ ~RetryDropped /\ ~cancelled
  /\ \E p \in Ptrs :
       /\ enqueues[p] = 1 + maxRetries
       /\ objs[p].Status = StatusDelivered

\* C10: a submission never blocks (it is enabled whatever the buffer holds);
\* a bulk submission of k items to a buffer with f free slots, no consumer
\* taking items meanwhile, appends the first min(k, f) items in order, logs
\* the others as dropped and returns min(k, f); a single submission is
\* accepted exactly when a slot is free; the buffer never exceeds its capacity.
C10_BoundedNonBlockingSubmit ==
  /\ [](/\ Len(queue) <= capacity
        /\ \A items \in BulkInputs : ENABLED BulkSubmit(items)
        /\ \A p \in Submittable : ENABLED SingleSubmit(p))
  /\ [][/\ \A items \in BulkInputs :
             BulkSubmit(items) =>
               LET f == capacity - Len(queue)
                   n == Min(Len(items), f) IN
               /\ queue' = queue \o SubSeq(items, 1, n)
               /\ droppedLog' =
                    droppedLog \cup {items[i] : i \in (n + 1)..Len(items)}
               /\ response'.notifications_queued = n
        /\ \A p \in Submittable :
             SingleSubmit(p) =>
               IF Len(queue) < capacity
               THEN queue' = Append(queue, p) /\ droppedLog' = droppedLog
               ELSE queue' = queue /\ droppedLog' = droppedLog \cup {p}
       ]_vars

\* capacity + 1 items were submitted in bulk to the empty buffer of the
\* largest capacity: capacity of them were accepted, the last one dropped
C10_Witness ==
  /\ capacity = QueueCap
  /\ response = [kind |-> "bulk", notifications_queued |-> capacity]
  /\ queue = [i \in 1..capacity |-> i]
  /\ droppedLog = {capacity + 1}
  /\ \A p \in 1..capacity : enqueues[p] = 1

(* ------------------------- C11: fan-out ------------------------------- *)
\* the positions of the author's follower list whose id is an existing user
ResolvedPositions(author) ==
  {i \in 1..Len(users[author]) : users[author][i] \in DOMAIN users}

\* the notifications a step created, in creation order
CreatedPtrs == (Len(objs) + 1)..Len(objs')

InStore(p) ==
  /\ objs[p].UserID \in DOMAIN notifications
  /\ p \in Range(notifications[objs[p].UserID])

\* the notifications handed to the queue and not yet through: waiting in the
\* buffer, in a worker's pass, or held by a retry goroutine during its backoff
InPipeline ==
  Range(queue) \cup {p \in Ptrs : Holders(p) # {}}
               \cup {p \in Ptrs : sleepers[p] # << >>}

\* C12: a notification is persisted before it is submitted: every
\* notification that is in the buffer, in a worker's pass or awaited by a
\* retry goroutine, and every one PublishPost is about to submit, is present
\* in its recipient's list in the Store.
C12_PersistedBeforeSubmitted ==
  /\ \A p \in InPipeline : InStore(p)
  /\ call.pc = "queueing" => \A p \in Range(call.pending) : InStore(p)

\* one stored notification waits in the buffer while another one, also
\* stored, is in its backoff
C12_Witness ==
  \E p, q \in Ptrs :
     /\ p # q
     /\ p \in Range(queue) /\ InStore(p)
     /\ sleepers[q] # << >> /\ InStore(q)

(* ---------------- C13: per-notification accounting --------------------- *)
\* C13: a notification delivered after k failed attempts (0 <= k <= 3) ends
\* Delivered with Attempts = k and its passes added k to TotalRetries, k to
\* FailedAttempts and 1 to TotalSent; a notification whose attempts all
\* failed ends Failed with Attempts = 4 and its passes added 3 to
\* TotalRetries, 4 to FailedAttempts and nothing to TotalSent.  The counters
\* hold nothing but what the passes of the notifications added.
C13_PerNotificationAccounting ==
  /\ \A p \in Ptrs :
       Holders(p) = {} =>
         /\ objs[p].Status = StatusDelivered =>
              /\ objs[p].Attempts \in 0..maxRetries
              /\ credit[p] = [failed |-> objs[p].Attempts,
                              retries |-> objs[p].Attempts, sent |-> 1]
         /\ objs[p].Status = StatusFailed =>
              /\ objs[p].Attempts = maxRetries + 1
              /\ credit[p] = [failed |-> maxRetries + 1,
                              retries |-> maxRetries, sent |-> 0]
  /\ metrics.FailedAttempts = SumOver([p \in Ptrs |-> credit[p].failed], Ptrs)
  /\ metrics.TotalRetries = SumOver([p \in Ptrs |-> credit[p].retries], Ptrs)
  /\ metrics.TotalSent = SumOver([p \in Ptrs |-> credit[p].sent], Ptrs)

\* one notification was delivered on its last retry and another one failed
\* all four attempts; both passes are over
C13_Witness ==
  \E p, q \in Ptrs :
     /\ Holders(p) = {} /\ Holders(q) = {}
     /\ objs[p].Status = StatusDelivered /\ objs[p].Attempts = maxRetries
     /\ objs[q].Status = StatusFailed /\ objs[q].Attempts = maxRetries + 1
     /\ metrics.TotalSent = 1
     /\ metrics.TotalRetries = 2 * maxRetries
     /\ metrics.FailedAttempts = 2 * maxRetries + 1

(* ------------------------- C14: Stop order ----------------------------- *)
\* every worker has returned from its loop
AllWorkersExited == \A w \in Workers : wpc[w] = "exited"

\* C14: Stop cancels the token, waits for every worker to return, and only
\* then closes the buffer: the buffer is closed only when the token is
\* cancelled and every worker has left its loop; a worker leaves only from
\* its select, never out of a processing pass, so a pass in flight when Stop
\* is requested runs to its end (Store update and metrics update applied)
\* before Stop returns.
C14_StopOrder ==
  /\ [](/\ closed => cancelled /\ AllWorkersExited
        /\ mainPc \in {"stopped", "exited"} =>
             /\ closed /\ AllWorkersExited
             /\ \A p \in Ptrs : Holders(p) = {})
  /\ [][/\ closed' /\ ~closed => cancelled /\ AllWorkersExited
        /\ \A w \in Workers :
             /\ wpc'[w] = "exited" => wpc[w] \in {"select", "exited"}
             /\ wpc[w] \in PassPcs /\ wpc'[w] # wpc[w] =>
                  /\ wn'[w] = wn[w]
                  /\ wpc'[w] \in PassPcs \cup {"select"}
       ]_vars

\* Stop has returned: the buffer is closed, every worker has left, and a
\* delivery was recorded in full before that
C14_Witness ==
  /\ mainPc = "stopped" /\ closed /\ cancelled
  /\ AllWorkersExited
  /\ \E p \in Ptrs : objs[p].Status = StatusDelivered /\ credit[p].sent = 1

(* -------------------- C15: workers after cancellation ------------------ *)
\* C15 as stated: once the token is cancelled no worker starts a new pass
\* and nothing is taken from the buffer any more.
C15_Original ==
  [][cancelled =>
       /\ \A w \in Workers : wpc[w] = "select" => wpc'[w] \in {"select", "exited"}
       /\ Len(queue') >= Len(queue)
    ]_vars

\* the buffer only grew at its end
QueueExtended ==
  /\ Len(queue') >= Len(queue)
  /\ SubSeq(queue', 1, Len(queue)) = queue

\* C15 (amended): once the token is cancelled every worker waiting at its
\* select can take the cancellation case and exit, but the select may as well
\* take an item, so new passes can still start; what is in the buffer once
\* every worker has exited stays there and is never processed (no
\* notification and no counter changes any more).
C15_ResidueDiscardedAfterLastExit ==
  /\ [](cancelled => \A w \in Workers : wpc[w] = "select" => ENABLED WorkerExit(w))
  /\ [][AllWorkersExited =>
          /\ QueueExtended
          /\ \A p \in Ptrs : objs'[p] = objs[p]
          /\ metrics' = metrics
       ]_vars

\* every worker has exited on the cancellation and a notification that was
\* never attempted is left in the buffer
C15_Witness ==
  /\ cancelled /\ AllWorkersExited
  /\ \E p \in Range(queue) : objs[p].Status = StatusQueued /\ objs[p].Attempts = 0
  /\ \E q \in Ptrs : Terminal(q)

(* ------------------- C16: shutdown order of ingest --------------------- *)
\* C16: the queue is stopped only after ingest has stopped accepting: once
\* Stop has begun (the token is cancelled) no PublishPost call is accepted
\* and none submits a notification to the queue, and no call is inside its
\* submission loop when the buffer is closed.
C16_IngestStoppedBeforeQueue ==
  /\ [](closed => call.pc = "idle" /\ ~serving)
  /\ [][cancelled =>
          /\ ~SubmitNext
          /\ \A a \in AuthorInputs : \A pid \in PostInputs : ~PublishPost(a, pid)
       ]_vars

(* ------------------- C17: drop at the initial enqueue ------------------ *)
\* the notifications logged as dropped that had never been attempted
DroppedAtFirstEnqueue == {p \in droppedLog : objs[p].Attempts = 0}

\* C17: a notification the buffer did not accept at its initial enqueue stays
\* in the Store with Status Queued and Attempts 0 in every later state and is
\* never in the buffer, in a pass or in a backoff; the response of the
\* PublishPost call reports as notifications_queued the number of its
\* notifications that were accepted, which is smaller than the number it
\* persisted whenever one was dropped, and reports success all the same.
C17_InitialDropStaysQueued ==
  /\ [](\A p \in DroppedAtFirstEnqueue :
          /\ InStore(p)
          /\ objs[p].Status = StatusQueued
          /\ enqueues[p] = 0
          /\ p \notin InPipeline
          /\ credit[p] = NoCredit)
  /\ [][/\ \A p \in DroppedAtFirstEnqueue :
             p \in Ptrs /\ p \in droppedLog' /\ objs'[p] = objs[p]
        /\ (SubmitNext /\ call'.pc = "idle") =>
             LET accepted == {p \in Range(call.items) : enqueues'[p] > 0}
                 dropped == Range(call.items) \ accepted IN
             /\ response'.success = TRUE
             /\ response'.notifications_queued = Cardinality(accepted)
             /\ dropped \subseteq droppedLog'
             /\ \A p \in Range(call.items) : InStore(p)'
             /\ dropped # {} =>
                  response'.notifications_queued < Len(call.items)
       ]_vars

\* a PublishPost has returned success with notifications_queued = 0 although
\* it persisted a notification, and later, with the other notification
\* delivered and the workers idle, the dropped one is still Queued
C17_Witness ==
  /\ response.kind = "ok" /\ response.success /\ response.notifications_queued = 0
  /\ call.pc = "idle"
  /\ \E p \in DroppedAtFirstEnqueue :
        /\ InStore(p) /\ objs[p].Status = StatusQueued
        /\ \E q \in Ptrs \ {p} : objs[q].Status = StatusDelivered
  /\ queue = << >>
  /\ \A w \in Workers : wpc[w] = "select"

(* ---------------------- C18: drop of a retry --------------------------- *)
\* the notifications whose re-submission after a backoff was dropped
DroppedAtRetry == {p \in droppedLog : objs[p].Attempts > 0}

\* C18: a retry whose re-submission finds the buffer full is dropped without
\* any change to the Store or to the metrics; from then on the notification
\* keeps Status Retrying and its Attempts in every later state, is never
\* processed again and never becomes Delivered or Failed.
C18_DroppedRetryStaysRetrying ==
  /\ [](\A p \in DroppedAtRetry :
          /\ InStore(p)
          /\ objs[p].Status = StatusRetrying
          /\ objs[p].Attempts \in 1..maxRetries
          /\ p \notin InPipeline)
  /\ [][/\ \A p \in DroppedAtRetry : p \in droppedLog' /\ objs'[p] = objs[p]
        /\ \A p \in Ptrs :
             (RetryFire(p) /\ ~closed /\ Len(queue) >= capacity) =>
               /\ p \in droppedLog'
               /\ queue' = queue
               /\ objs' = objs
               /\ notifications' = notifications
               /\ metrics' = metrics
       ]_vars

\* a retry was dropped; afterwards the other notification was delivered, the
\* buffer is empty and the workers idle, and the dropped one is still Retrying
C18_Witness ==
  /\ \E p \in DroppedAtRetry :
        /\ objs[p].Status = StatusRetrying
        /\ \E q \in Ptrs \ {p} : objs[q].Status = StatusDelivered /\ Holders(q) = {}
  /\ queue = << >>
  /\ \A w \in Workers : wpc[w] = "select"
  /\ \A p \in Ptrs : sleepers[p] = << >>

(* ------------------- C19: GetUserNotifications ------------------------- *)
\* C19: GetUserNotifications(user, limit) returns the min(limit, length) most
\* recently appended notifications of the user, newest first (the one saved
\* last at the first position), leaves the Store unchanged, and for a user
\* that has no notification list returns the empty list and no error; a
\* notification just saved is the first of its recipient's result.
C19_NewestFirstUpToLimit ==
  [][/\ \A u \in ReadUsers : \A limit \in 0..MaxLimit :
          StoreRead(u, limit) =>
            /\ storeVars' = storeVars /\ objs' = objs
            /\ response'.err = ErrNone
            /\ IF u \notin DOMAIN notifications
               THEN response'.list = << >>
               ELSE LET l == notifications[u]
                        k == Min(limit, Len(l)) IN
                    /\ Len(response'.list) = k
                    /\ \A i \in 1..k : response'.list[i] = l[Len(l) + 1 - i]
     /\ \A p \in 1..StoreItems :
          StoreSave(p) =>
            \A limit \in 1..MaxLimit :
              GetUserNotifications(notifications', objs[p].UserID, limit).list[1] = p
    ]_vars

\* a read with a limit below the length of the list returned its newest
\* entries only, newest first
C19_Witness ==
  /\ response.kind = "read"
  /\ response.user \in DOMAIN notifications
  /\ LET l == notifications[response.user] IN
     /\ Len(l) >= 2
     /\ response.limit = Len(l) - 1
     /\ Len(response.list) = Len(l) - 1
     /\ response.list[1] = l[Len(l)]
     /\ l[1] \notin Range(response.list)

(* ------------------- C20: Status of buffered items --------------------- *)
\* C20 as stated: every notification waiting in the buffer has Status Queued
\* (a re-enqueue takes the Status from Retrying back to Queued).
C20_Original ==
  \A p \in Range(queue) : objs[p].Status = StatusQueued

\* C20 (amended): the re-enqueue after a backoff changes no field of the
\* notification: a notification waiting in the buffer has Status Queued and
\* Attempts 0 when it is there by its initial enqueue, and Status Retrying and
\* Attempts in 1..3 when it is there by a re-enqueue.
C20_BufferedQueuedOrRetrying ==
  /\ [](\A p \in Range(queue) :
          IF enqueues[p] = 1
          THEN objs[p].Status = StatusQueued /\ objs[p].Attempts = 0
          ELSE /\ objs[p].Status = StatusRetrying
               /\ objs[p].Attempts \in 1..maxRetries
               /\ enqueues[p] = objs[p].Attempts + 1)
  /\ [][\A p \in Ptrs :
          RetryFire(p) => objs' = objs /\ notifications' = notifications
       ]_vars

\* the buffer holds a notification re-enqueued after its third failure, still
\* Retrying, next to one that was never attempted
C20_Witness ==
  \E p, q \in Range(queue) :
     /\ objs[p].Status = StatusRetrying /\ objs[p].Attempts = maxRetries
     /\ enqueues[p] = maxRetries + 1
     /\ objs[q].Status = StatusQueued /\ objs[q].Attempts = 0

(* ------------------- C21: retries outlive Stop ------------------------- *)
\* a retry goroutine is in its backoff
PendingRetries == {p \in Ptrs : sleepers[p] # << >>}

\* C21: Stop does not track the scheduled retries: with every worker gone it
\* closes the buffer whether or not a retry goroutine is still in its
\* backoff, such a goroutine stays able to run after Stop has returned, and
\* when it runs it sends to the closed buffer (the send panics).
C21_RetriesNotTrackedByStop ==
  /\ [](/\ (Alive /\ mainPc = "waiting" /\ AllWorkersExited) => ENABLED StopClose
        /\ \A p \in PendingRetries : Alive => ENABLED RetryFire(p))
  /\ [][\A p \in Ptrs :
          RetryFire(p) =>
            IF closed
            THEN panicked' /\ queue' = queue /\ p \notin droppedLog' \ droppedLog
            ELSE ~panicked'
       ]_vars

\* Stop has returned while a retry was in its backoff, the backoff elapsed
\* and the send hit the closed buffer: no PublishPost was in flight, so the
\* panic is the retry goroutine's
C21_Witness ==
  /\ panicked /\ closed
  /\ mainPc = "stopped"
  /\ call.pc = "idle"
  /\ \E p \in Ptrs : objs[p].Status = StatusRetrying /\ p \notin Range(queue)

(* ---------------------- C22: Stop terminates --------------------------- *)
\* C22: once Stop is requested on a running queue, under fair scheduling
\* every worker eventually exits and Stop returns with the buffer closed,
\* also when the buffer is not empty at the request and items are still
\* submitted after it.
C22_StopReturns ==
  (mainPc = "waiting") ~> (mainPc = "stopped" /\ closed /\ AllWorkersExited)

\* Stop has returned with every worker gone while the buffer still holds
\* items and a retry is still in its backoff
C22_Witness ==
  /\ mainPc = "stopped" /\ closed /\ AllWorkersExited
  /\ queue # << >>
  /\ PendingRetries # {}

(* ------------------- C23: what a reader can see ------------------------ *)
\* what the pointers GetUserNotifications returns for user u lead to: the
\* Store's list and the worker's notification are the same objects, so a
\* field written by a worker is there for a reader as soon as it is written
\* (the read is not synchronised with the write: the reader may also still
\* see the old value)
StoreView(u) ==
  [i \in 1..Len(notifications[u]) |->
     [ID |-> objs[notifications[u][i]].ID,
      Status |-> objs[notifications[u][i]].Status,
      Attempts |-> objs[notifications[u][i]].Attempts]]

\* C23: the Status and Attempts of a notification, as readable through the
\* Store, change only in an UpdateNotification step of the worker that
\* processes it.
C23_VisibleOnlyThroughUpdate ==
  [][\A u \in DOMAIN notifications :
       \A i \in 1..Len(notifications[u]) :
          (\/ StoreView(u)'[i].Status # StoreView(u)[i].Status
           \/ StoreView(u)'[i].Attempts # StoreView(u)[i].Attempts) =>
            \E w \in Workers : StoreUpdate(w) /\ wn[w] = notifications[u][i]
    ]_vars

(* ---------------------- C24: UpdateNotification ------------------------ *)
\* C24: UpdateNotification puts the given notification in the place of the
\* entry of the recipient's list that has its ID and changes no other entry,
\* no list length and no order; it returns ErrUserNotFound when the recipient
\* has no list and ErrNotificationNotFound when no entry has the ID, and then
\* leaves the Store as it was.
C24_UpdateInPlace ==
  [][\A p \in 1..Len(objs) :
       StoreUpdateCall(p) =>
         LET uid == objs[p].UserID IN
         /\ users' = users /\ posts' = posts /\ objs' = objs
         /\ DOMAIN notifications' = DOMAIN notifications
         /\ \A u \in DOMAIN notifications \ {uid} :
              notifications'[u] = notifications[u]
         /\ IF uid \notin DOMAIN notifications
            THEN /\ response'.err = ErrUserNotFound
                 /\ notifications' = notifications
            ELSE LET l == notifications[uid] IN
                 IF \A i \in 1..Len(l) : objs[l[i]].ID # objs[p].ID
                 THEN /\ response'.err = ErrNotificationNotFound
                      /\ notifications' = notifications
                 ELSE /\ response'.err = ErrNone
                      /\ Len(notifications'[uid]) = Len(l)
                      /\ \A i \in 1..Len(l) :
                           notifications'[uid][i] =
                             IF objs[l[i]].ID = objs[p].ID THEN p ELSE l[i]
    ]_vars

\* an update has put the second object with the ID of the first notification
\* in the place of the first entry of a list of two, the other entry kept
C24_Witness ==
  /\ response.kind = "updated" /\ response.err = ErrNone
  /\ response.ptr = StoreItems + 1
  /\ LET l == notifications[objs[response.ptr].UserID] IN
     /\ Len(l) >= 2
     /\ l[1] = response.ptr
     /\ objs[l[1]].Status = StatusDelivered
     /\ objs[l[2]].ID # objs[l[1]].ID

(* --------------------------- C25: backoff ------------------------------ *)
\* the delays of the claim, in ms, by number of failed attempts
BackoffTable == <<100, 200, 400>>

\* C25: the retry scheduled after the k-th failed attempt (k = 1, 2, 3) waits
\* initialBackoff * 2^(k-1), that is 100, 200, 400 ms, whatever else the
\* state holds; a retry is scheduled by nothing else, and none after the 4th
\* failure.
C25_BackoffSchedule ==
  /\ [](\A p \in Ptrs :
          objs[p].Attempts = maxRetries + 1 => sleepers[p] = << >>)
  /\ [][/\ \A w \in Workers :
             ScheduleRetry(w) =>
               LET p == wn[w]
                   k == objs[p].Attempts IN
               /\ k \in 1..maxRetries
               /\ sleepers'[p] = Append(sleepers[p], BackoffTable[k])
               /\ BackoffTable[k] = initialBackoff * (2 ^ (k - 1))
               /\ \A q \in DOMAIN sleepers \ {p} : sleepers'[q] = sleepers[q]
        /\ \A p \in DOMAIN sleepers :
             Len(sleepers'[p]) > Len(sleepers[p]) =>
               /\ p \in Ptrs /\ objs[p].Attempts <= maxRetries
               /\ \E w \in Workers : ScheduleRetry(w) /\ wn[w] = p
       ]_vars

\* the retry after the third failure is waiting its 400 ms while the other
\* notification has failed four times and has no retry
C25_Witness ==
  \E p, q \in Ptrs :
     /\ objs[p].Attempts = maxRetries /\ sleepers[p] = <<400>>
     /\ objs[q].Attempts = maxRetries + 1 /\ objs[q].Status = StatusFailed
     /\ sleepers[q] = << >>

(* ------------------- C26: PublishPost, unknown author ------------------ *)
\* C26: a PublishPost whose author is not in the users table returns the
\* internal-failure error, creates no notification and submits nothing to
\* the queue; the post has been saved before the followers are looked up and
\* stays in the Store, through the error and ever after.
C26_UnknownAuthorFailsAfterSave ==
  [][/\ \A a \in AuthorInputs \ DOMAIN users : \A pid \in PostInputs :
          PublishPost(a, pid) =>
            /\ response' = [kind |-> "error", code |-> "Internal"]
            /\ objs' = objs
            /\ notifications' = notifications
            /\ queue' = queue /\ enqueues' = enqueues /\ droppedLog' = droppedLog
            /\ call' = call /\ call.pc = "idle"
            /\ pid \in DOMAIN posts' /\ posts'[pid] = a
            /\ \A q \in DOMAIN posts \ {pid} :
                 q \in DOMAIN posts' /\ posts'[q] = posts[q]
     /\ \A q \in DOMAIN posts : q \in DOMAIN posts'
    ]_vars

\* the call for the unknown author user9 has returned the error; its post is
\* in the Store and no notification exists
C26_Witness ==
  /\ response = [kind |-> "error", code |-> "Internal"]
  /\ "user9" \notin DOMAIN users
  /\ \E pid \in PostInputs : pid \in DOMAIN posts /\ posts[pid] = "user9"
  /\ objs = << >>
  /\ queue = << >>

====
